---- MODULE Spec2Model ----
(***************************************************************************)
(* Soleus A/C infrared protocol: the 11-byte state buffer of IRSoleusAc    *)
(* (ir_Soleus.cpp / ir_Soleus.h), IRsend::sendSoleus and                   *)
(* IRrecv::decodeSoleus.                                                   *)
(*                                                                         *)
(* Byte arrays are sequences; C index i is sequence index i + 1.           *)
(***************************************************************************)
EXTENDS Integers, Sequences, FiniteSets, TLC

VARIABLES
  remote_state,  \* IRSoleusAc::remote_state[kSoleusStateLength]
  fromReset,     \* no setRaw call by the user since the last stateReset
  pre_state,     \* remote_state as it was before the last call
  lastOp,        \* name of the last method called
  lastArg,       \* its argument (booleans as 0/1)
  nops,          \* number of calls made so far
  retval,        \* value returned by the last calcChecksum / validChecksum
  pc,            \* position of the send / capture / decode path
  txdata,        \* sendSoleus: data[]
  txnbytes,      \* sendSoleus: nbytes
  txrepeat,      \* sendSoleus: repeat
  txi,           \* sendSoleus: loop counter i (uint16_t)
  irout,         \* pulses of the first MaxLogged messages emitted
  nsent,         \* number of messages emitted by this sendSoleus call
  rawbuf,        \* decode_results::rawbuf (durations, entry 0 is the gap)
  results,       \* decode_results: state, decode_type, bits
  decodeArgs,    \* the last decodeSoleus call: nbits, strict
  ret            \* value returned by the last decodeSoleus call

acvars == <<remote_state, fromReset, pre_state, lastOp, lastArg, nops, retval>>
irvars == <<pc, txdata, txnbytes, txrepeat, txi, irout, nsent, nsent, rawbuf, results,
            decodeArgs, ret>>
vars == <<remote_state, fromReset, pre_state, lastOp, lastArg, nops, retval, pc, txdata,
          txnbytes, txrepeat, txi, irout, rawbuf, results, decodeArgs, ret>>

----------------------------------------------------------------------------
(* Bounds of the model *)
MaxOps == 2

MaxRepeat == 1

MaxLogged == 2

MaxCount == 65537

----------------------------------------------------------------------------
(* Constants of ir_Soleus.h *)
kSoleus8CHeatOffset == 1
kSoleusIonOffset == 2
kSoleusLightOffset == 0
kSoleusHoldOffset == 2
kSoleusTurboOffset == 3
kSoleusEyeOffset == 6
kSoleusFreshOffset == 7
kSoleusButtonOffset == 0
kSoleusButtonSize == 5
kSoleusButtonPower == 0
kSoleusButtonMode == 1
kSoleusButtonTempUp == 2
kSoleusButtonTempDown == 3
kSoleusButtonSwing == 4
kSoleusButtonFanSpeed == 5
kSoleusButtonAirFlow == 7
kSoleusButtonHold == 8
kSoleusButtonSleep == 9
kSoleusButtonTurbo == 10
kSoleusButtonLight == 11
kSoleusButtonEye == 14
kSoleusButtonFollow == 19
kSoleusButtonIon == 20
kSoleusButtonFresh == 21
kSoleusButton8CHeat == 29
kSoleusSleepOffset == 0
kSoleusPowerOffset == 1
kSoleusSwingVOffset == 2
kSoleusSwingVSize == 2
kSoleusSwingVOn == 1
kSoleusSwingVOff == 2
kSoleusSwingHOffset == 4
kSoleusFanOffest == 5
kSoleusFanSize == 2
kSoleusFanAuto == 0
kSoleusFanHigh == 1
kSoleusFanMed == 2
kSoleusFanLow == 3
kSoleusFollowMe == 93
kSoleusTempOffset == 0
kSoleusTempSize == 5
kSoleusMinTemp == 16
kSoleusMaxTemp == 32
kSoleusModeOffset == 5
kSoleusAuto == 0
kSoleusCool == 1
kSoleusDry == 2
kSoleusFan == 3
kSoleusHeat == 4

(* Constants of ir_Soleus.cpp *)
kSoleusHdrMark == 6112
kSoleusHdrSpace == 7391
kSoleusBitMark == 537
kSoleusOneSpace == 1651
kSoleusZeroSpace == 571

(* Constants the sources use but do not define *)
kSoleusStateLength == 11
kSoleusBits == 88
kModeBitsSize == 3
kDefaultMessageGap == 100000
kSoleusMinGap == kDefaultMessageGap
kTolerance == 25

----------------------------------------------------------------------------
(* Bit helpers (IRutils) *)
Pow2(n) == 2 ^ n

Min(a, b) == IF a < b THEN a ELSE b

Max(a, b) == IF a > b THEN a ELSE b

GETBITS8(data, offset, size) == (data \div Pow2(offset)) % Pow2(size)

GETBIT8(a, b) == ((a \div Pow2(b)) % 2) = 1

setBit(dst, position, on) ==
  IF position >= 8 THEN dst
  ELSE IF on
    THEN (IF GETBIT8(dst, position) THEN dst ELSE dst + Pow2(position))
    ELSE (IF GETBIT8(dst, position) THEN dst - Pow2(position) ELSE dst)

setBits(dst, offset, nbits, data) ==
  IF offset >= 8 \/ nbits = 0 THEN dst
  ELSE LET n == Min(nbits, 8)
           mask == Pow2(n) - 1
           field == Min(n, 8 - offset)
           cleared == dst - GETBITS8(dst, offset, field) * Pow2(offset)
           shifted == (((data % 256) % (mask + 1)) * Pow2(offset)) % 256
       IN  cleared + shifted

RECURSIVE sumBytes(_, _)
sumBytes(start, length) ==
  IF length = 0 THEN 0
  ELSE (sumBytes(start, length - 1) + start[length]) % 256

----------------------------------------------------------------------------
(* IRSoleusAc, as functions from the state buffer to the state buffer *)
kReset == <<0, 0, 0, 0, 0, 0, 0, 106, 0, 42, 165>>

calcChecksum_allBytes(state, length) ==
  IF length = 0 THEN state[1]
  ELSE sumBytes(state, length)

calcChecksum(state, length) ==
  IF length = 0 THEN state[1]
  ELSE sumBytes(state, length - 1)

validChecksum_guardInverted(state, length) ==
  IF length > 2 THEN TRUE
  ELSE state[length] = calcChecksum(state, length)

validChecksum(state, length) ==
  IF length < 2 THEN TRUE
  ELSE state[length] = calcChecksum(state, length)

checksum_wrongIndex(rs, length) ==
  IF length < 2 THEN rs
  ELSE [rs EXCEPT ![length - 1] = calcChecksum(rs, length)]

checksum_accumulate(rs, length) ==
  IF length < 2 THEN rs
  ELSE [rs EXCEPT ![length] = (rs[length] + calcChecksum(rs, length)) % 256]

checksum(rs, length) ==
  IF length < 2 THEN rs
  ELSE [rs EXCEPT ![length] = calcChecksum(rs, length)]

getRaw_noChecksum(rs) == rs

getRaw(rs) == checksum(rs, kSoleusStateLength)

setRaw_noMin(rs, new_code, length) ==
  [k \in 1..Max(length, kSoleusStateLength) |->
     IF k > length THEN rs[k]
     ELSE IF k <= Len(new_code) THEN new_code[k]
     ELSE 0]

setRaw(rs, new_code, length) ==
  [k \in 1..kSoleusStateLength |->
     IF k <= Min(length, kSoleusStateLength) THEN new_code[k] ELSE rs[k]]

stateReset_short(rs) == setRaw(rs, kReset, kSoleusStateLength - 1)

stateReset(rs) == setRaw(rs, kReset, kSoleusStateLength)

Buttons ==
  {kSoleusButtonPower, kSoleusButtonMode, kSoleusButtonTempUp,
   kSoleusButtonTempDown, kSoleusButtonSwing, kSoleusButtonFanSpeed,
   kSoleusButtonAirFlow, kSoleusButtonHold, kSoleusButtonSleep,
   kSoleusButtonLight, kSoleusButtonEye, kSoleusButtonFollow,
   kSoleusButtonIon, kSoleusButtonFresh, kSoleusButton8CHeat,
   kSoleusButtonTurbo}

setButton_noDefault(rs, button) ==
  [rs EXCEPT ![6] = setBits(rs[6], kSoleusButtonOffset, kSoleusButtonSize,
                            button)]

RECURSIVE setButton(_, _)
setButton(rs, button) ==
  IF button \in Buttons
    THEN [rs EXCEPT ![6] = setBits(rs[6], kSoleusButtonOffset,
                                   kSoleusButtonSize, button)]
    ELSE setButton(rs, kSoleusButtonPower)

getButton(rs) == GETBITS8(rs[6], kSoleusButtonOffset, kSoleusButtonSize)

setPower(rs, on) ==
  LET s1 == setButton(rs, kSoleusButtonPower)
  IN  [s1 EXCEPT ![8] = setBit(s1[8], kSoleusPowerOffset, on)]

getPower(rs) == GETBIT8(rs[8], kSoleusPowerOffset)

getMode(rs) == GETBITS8(rs[10], kSoleusModeOffset, kModeBitsSize)

getTemp(rs) ==
  GETBITS8(rs[10], kSoleusTempOffset, kSoleusTempSize) + kSoleusMinTemp

getFan(rs) == GETBITS8(rs[8], kSoleusFanOffest, kSoleusFanSize)

WriteFan(rs, speed) ==
  LET s1 == [rs EXCEPT ![8] = setBits(rs[8], kSoleusFanOffest,
                                      kSoleusFanSize, speed)]
  IN  setButton(s1, kSoleusButtonFanSpeed)

setFan_noDryCheck(rs, speed) ==
  IF speed \in {kSoleusFanAuto, kSoleusFanHigh, kSoleusFanMed, kSoleusFanLow}
    THEN WriteFan(rs, speed)
    ELSE WriteFan(rs, kSoleusFanAuto)

setFan_noDefault(rs, speed) ==
  IF speed \in {kSoleusFanAuto, kSoleusFanHigh, kSoleusFanMed}
       /\ getMode(rs) = kSoleusDry
    THEN WriteFan(rs, kSoleusFanLow)
    ELSE WriteFan(rs, speed)

RECURSIVE setFan(_, _)
setFan(rs, speed) ==
  IF speed \in {kSoleusFanAuto, kSoleusFanHigh, kSoleusFanMed}
       /\ getMode(rs) = kSoleusDry
    THEN setFan(rs, kSoleusFanLow)
  ELSE IF speed \in {kSoleusFanAuto, kSoleusFanHigh, kSoleusFanMed,
                     kSoleusFanLow}
    THEN WriteFan(rs, speed)
  ELSE setFan(rs, kSoleusFanAuto)

WriteMode_buttonFirst(rs, mode) ==
  LET s0 == setButton(rs, kSoleusButtonMode)
      s1 == [s0 EXCEPT ![10] = setBits(s0[10], kSoleusModeOffset,
                                       kModeBitsSize, mode)]
  IN  IF mode = kSoleusDry THEN setFan(s1, kSoleusFanLow) ELSE s1

WriteMode(rs, mode) ==
  LET s0 == IF mode = kSoleusDry THEN setFan(rs, kSoleusFanLow) ELSE rs
      s1 == [s0 EXCEPT ![10] = setBits(s0[10], kSoleusModeOffset,
                                       kModeBitsSize, mode)]
  IN  setButton(s1, kSoleusButtonMode)

setMode_noDefault(rs, mode) == WriteMode(rs, mode)

RECURSIVE setMode(_, _)
setMode(rs, mode) ==
  IF mode \in {kSoleusDry, kSoleusAuto, kSoleusCool, kSoleusFan, kSoleusHeat}
    THEN WriteMode(rs, mode)
    ELSE setMode(rs, kSoleusAuto)

setTemp_noMax(rs, temp) ==
  LET oldtemp == getTemp(rs)
      newtemp == Max(kSoleusMinTemp, temp)
      s1 == IF oldtemp > newtemp THEN setButton(rs, kSoleusButtonTempDown)
            ELSE IF newtemp > oldtemp
              THEN setButton(rs, kSoleusButtonTempUp)
            ELSE rs
  IN  [s1 EXCEPT ![10] = setBits(s1[10], kSoleusTempOffset, kSoleusTempSize,
                                 (newtemp - kSoleusMinTemp) % 256)]

setTemp_rawCompare(rs, temp) ==
  LET oldtemp == getTemp(rs)
      newtemp == Min(kSoleusMaxTemp, Max(kSoleusMinTemp, temp))
      s1 == IF oldtemp > temp THEN setButton(rs, kSoleusButtonTempDown)
            ELSE IF temp > oldtemp THEN setButton(rs, kSoleusButtonTempUp)
            ELSE rs
  IN  [s1 EXCEPT ![10] = setBits(s1[10], kSoleusTempOffset, kSoleusTempSize,
                                 (newtemp - kSoleusMinTemp) % 256)]

setTemp(rs, temp) ==
  LET oldtemp == getTemp(rs)
      newtemp == Min(kSoleusMaxTemp, Max(kSoleusMinTemp, temp))
      s1 == IF oldtemp > newtemp THEN setButton(rs, kSoleusButtonTempDown)
            ELSE IF newtemp > oldtemp
              THEN setButton(rs, kSoleusButtonTempUp)
            ELSE rs
  IN  [s1 EXCEPT ![10] = setBits(s1[10], kSoleusTempOffset, kSoleusTempSize,
                                 (newtemp - kSoleusMinTemp) % 256)]

setSleep(rs, on) ==
  LET s1 == setButton(rs, kSoleusButtonSleep)
  IN  [s1 EXCEPT ![8] = setBit(s1[8], kSoleusSleepOffset, on)]

getSleep(rs) == GETBIT8(rs[8], kSoleusSleepOffset)

setSwingV_wrongSize(rs, on) ==
  LET s1 == setButton(rs, kSoleusButtonSwing)
  IN  [s1 EXCEPT ![8] = setBits(s1[8], kSoleusSwingVOffset, 3,
                                IF on THEN kSoleusSwingVOn
                                ELSE kSoleusSwingVOff)]

setSwingV(rs, on) ==
  LET s1 == setButton(rs, kSoleusButtonSwing)
  IN  [s1 EXCEPT ![8] = setBits(s1[8], kSoleusSwingVOffset, kSoleusSwingVSize,
                                IF on THEN kSoleusSwingVOn
                                ELSE kSoleusSwingVOff)]

getSwingV(rs) ==
  GETBITS8(rs[8], kSoleusSwingVOffset, kSoleusSwingVSize) = kSoleusSwingVOn

setSwingH_notInverted(rs, on) ==
  LET s1 == setButton(rs, kSoleusButtonAirFlow)
  IN  [s1 EXCEPT ![8] = setBit(s1[8], kSoleusSwingHOffset, on)]

setSwingH(rs, on) ==
  LET s1 == setButton(rs, kSoleusButtonAirFlow)
  IN  [s1 EXCEPT ![8] = setBit(s1[8], kSoleusSwingHOffset, ~on)]

getSwingH(rs) == ~GETBIT8(rs[8], kSoleusSwingHOffset)

setTurbo(rs, on) ==
  LET s1 == setButton(rs, kSoleusButtonTurbo)
  IN  [s1 EXCEPT ![4] = setBit(s1[4], kSoleusTurboOffset, on)]

getTurbo(rs) == GETBIT8(rs[4], kSoleusTurboOffset)

setFresh_wrongBit(rs, on) ==
  LET s1 == setButton(rs, kSoleusButtonFresh)
  IN  [s1 EXCEPT ![6] = setBit(s1[6], kSoleusFreshOffset - 1, on)]

setFresh(rs, on) ==
  LET s1 == setButton(rs, kSoleusButtonFresh)
  IN  [s1 EXCEPT ![6] = setBit(s1[6], kSoleusFreshOffset, on)]

getFresh(rs) == GETBIT8(rs[6], kSoleusFreshOffset)

setHold(rs, on) ==
  LET s1 == setButton(rs, kSoleusButtonHold)
  IN  [s1 EXCEPT ![4] = setBit(s1[4], kSoleusHoldOffset, on)]

getHold(rs) == GETBIT8(rs[4], kSoleusHoldOffset)

setIon(rs, on) ==
  LET s1 == setButton(rs, kSoleusButtonIon)
  IN  [s1 EXCEPT ![2] = setBit(s1[2], kSoleusIonOffset, on)]

getIon(rs) == GETBIT8(rs[2], kSoleusIonOffset)

setLight(rs, on) ==
  LET s1 == setButton(rs, kSoleusButtonLight)
  IN  [s1 EXCEPT ![4] = setBit(s1[4], kSoleusLightOffset, on)]

getLight(rs) == GETBIT8(rs[4], kSoleusLightOffset)

set8CHeat(rs, on) ==
  LET s1 == setButton(rs, kSoleusButton8CHeat)
  IN  [s1 EXCEPT ![2] = setBit(s1[2], kSoleus8CHeatOffset, on)]

get8CHeat(rs) == GETBIT8(rs[2], kSoleus8CHeatOffset)

setEye(rs, on) ==
  LET s1 == setButton(rs, kSoleusButtonEye)
  IN  [s1 EXCEPT ![4] = setBit(s1[4], kSoleusEyeOffset, on)]

getEye(rs) == GETBIT8(rs[4], kSoleusEyeOffset)

getFollow(rs) ==
  LET b == rs[9]
  IN  \A k \in 0..7 : GETBIT8(kSoleusFollowMe, k) => GETBIT8(b, k)

----------------------------------------------------------------------------
(* IRsend: the generic sender.  A pulse is <<"mark", usecs>> or            *)
(* <<"space", usecs>>.                                                     *)
mark(usecs) == <<"mark", usecs>>

space(usecs) == <<"space", usecs>>

BitAt(byte, bit) == (byte \div Pow2(bit)) % 2

RECURSIVE sendData(_, _, _, _, _, _, _)
sendData(onemark, onespace, zeromark, zerospace, data, nbits, MSBfirst) ==
  IF nbits = 0 THEN <<>>
  ELSE LET bit == IF MSBfirst THEN BitAt(data, nbits - 1) ELSE BitAt(data, 0)
           rest == IF MSBfirst THEN data ELSE data \div 2
       IN  (IF bit = 1 THEN <<mark(onemark), space(onespace)>>
            ELSE <<mark(zeromark), space(zerospace)>>)
           \o sendData(onemark, onespace, zeromark, zerospace, rest,
                       nbits - 1, MSBfirst)

RECURSIVE sendBytes(_, _, _, _, _, _, _, _)
sendBytes(onemark, onespace, zeromark, zerospace, data, from, nbytes, MSBfirst) ==
  IF from > nbytes THEN <<>>
  ELSE sendData(onemark, onespace, zeromark, zerospace, data[from], 8,
                MSBfirst)
       \o sendBytes(onemark, onespace, zeromark, zerospace, data, from + 1,
                    nbytes, MSBfirst)

RECURSIVE sendGeneric(_, _, _, _, _, _, _, _, _, _, _, _, _, _)
sendGeneric(headermark, headerspace, onemark, onespace, zeromark, zerospace, footermark, gap, dataptr, nbytes, frequency, MSBfirst, repeat, dutycycle) ==
  LET once ==
        (IF headermark # 0 THEN <<mark(headermark)>> ELSE <<>>)
        \o (IF headerspace # 0 THEN <<space(headerspace)>> ELSE <<>>)
        \o sendBytes(onemark, onespace, zeromark, zerospace, dataptr, 1,
                     nbytes, MSBfirst)
        \o (IF footermark # 0 THEN <<mark(footermark)>> ELSE <<>>)
        \o <<space(gap)>>
  IN  IF repeat = 0 THEN once
      ELSE once \o sendGeneric(headermark, headerspace, onemark, onespace,
                               zeromark, zerospace, footermark, gap, dataptr,
                               nbytes, frequency, MSBfirst, repeat - 1,
                               dutycycle)

sendSoleusMessage_MSBfirst(data, nbytes) ==
  sendGeneric(kSoleusHdrMark, kSoleusHdrSpace, kSoleusBitMark,
              kSoleusOneSpace, kSoleusBitMark, kSoleusZeroSpace,
              kSoleusBitMark, kSoleusHdrSpace, data, nbytes, 38000, TRUE, 0,
              50)
  \o <<mark(kSoleusBitMark), space(kSoleusMinGap)>>

sendSoleusMessage_noExtraFooter(data, nbytes) ==
  sendGeneric(kSoleusHdrMark, kSoleusHdrSpace, kSoleusBitMark,
              kSoleusOneSpace, kSoleusBitMark, kSoleusZeroSpace,
              kSoleusBitMark, kSoleusMinGap, data, nbytes, 38000, FALSE, 0,
              50)

sendSoleusMessage_swapSpaces(data, nbytes) ==
  sendGeneric(kSoleusHdrMark, kSoleusHdrSpace, kSoleusBitMark,
              kSoleusZeroSpace, kSoleusBitMark, kSoleusOneSpace,
              kSoleusBitMark, kSoleusHdrSpace, data, nbytes, 38000, FALSE, 0,
              50)
  \o <<mark(kSoleusBitMark), space(kSoleusMinGap)>>

(* One iteration of the loop of IRsend::sendSoleus *)
sendSoleusMessage(data, nbytes) ==
  sendGeneric(kSoleusHdrMark, kSoleusHdrSpace, kSoleusBitMark,
              kSoleusOneSpace, kSoleusBitMark, kSoleusZeroSpace,
              kSoleusBitMark, kSoleusHdrSpace, data, nbytes, 38000, FALSE, 0,
              50)
  \o <<mark(kSoleusBitMark), space(kSoleusMinGap)>>

----------------------------------------------------------------------------
(* IRrecv: the generic matcher, on durations in microseconds *)
match(measured, desired) ==
  /\ measured * 100 >= desired * (100 - kTolerance)
  /\ measured * 100 <= desired * (100 + kTolerance)

matchMark(measured, desired) == match(measured, desired)

matchSpace(measured, desired) == match(measured, desired)

matchAtLeast(measured, desired) ==
  measured * 100 >= desired * (100 - kTolerance)

(* One data bit at data[off], data[off + 1]: 1, 0 or -1 for no match *)
matchBit(data, off, onemark, onespace, zeromark, zerospace) ==
  IF matchMark(data[off], onemark) /\ matchSpace(data[off + 1], onespace)
    THEN 1
  ELSE IF matchMark(data[off], zeromark)
          /\ matchSpace(data[off + 1], zerospace)
    THEN 0
  ELSE -1

(* nbits bits from data[off]: the value, or -1 for no match *)
RECURSIVE matchData(_, _, _, _, _, _, _, _)
matchData(data, off, nbits, onemark, onespace, zeromark, zerospace, MSBfirst) ==
  IF nbits = 0 THEN 0
  ELSE LET bit == matchBit(data, off, onemark, onespace, zeromark, zerospace)
           rest == IF bit = -1 THEN -1
                   ELSE matchData(data, off + 2, nbits - 1, onemark,
                                  onespace, zeromark, zerospace, MSBfirst)
       IN  IF bit = -1 \/ rest = -1 THEN -1
           ELSE IF MSBfirst THEN bit * Pow2(nbits - 1) + rest
           ELSE bit + 2 * rest

(* Bytes k..nbytes from data[off], stored into result as they are matched *)
RECURSIVE matchBytes(_, _, _, _, _, _, _, _, _, _)
matchBytes(data, off, result, k, nbytes, onemark, onespace, zeromark, zerospace, MSBfirst) ==
  IF k > nbytes THEN [used |-> off - 1, state |-> result]
  ELSE LET byte == matchData(data, off, 8, onemark, onespace, zeromark,
                             zerospace, MSBfirst)
       IN  IF byte = -1 THEN [used |-> 0, state |-> result]
           ELSE matchBytes(data, off + 16, [result EXCEPT ![k] = byte],
                           k + 1, nbytes, onemark, onespace, zeromark,
                           zerospace, MSBfirst)

(* The tail of matchGeneric: the footer, from data[off] *)
matchFooter(data, off, remaining, footermark, footerspace, atleast) ==
  IF footermark # 0 /\ ~matchMark(data[off], footermark) THEN 0
  ELSE LET o1 == IF footermark # 0 THEN off + 1 ELSE off
       IN  IF footerspace # 0 /\ o1 - 1 < remaining
             THEN IF atleast
                    THEN (IF matchAtLeast(data[o1], footerspace) THEN o1
                          ELSE 0)
                    ELSE (IF matchSpace(data[o1], footerspace) THEN o1
                          ELSE 0)
             ELSE o1 - 1

(* matchGeneric storing bytes: entries used (0 for no match) and the       *)
(* result array as the call leaves it                                      *)
matchGeneric(data, result, remaining, nbits, hdrmark, hdrspace, onemark, onespace, zeromark, zerospace, footermark, footerspace, atleast, MSBfirst) ==
  LET min_remaining == nbits * 2 + (IF hdrmark # 0 THEN 1 ELSE 0)
                       + (IF hdrspace # 0 THEN 1 ELSE 0)
                       + (IF footermark # 0 THEN 1 ELSE 0)
      o1 == IF hdrmark # 0 THEN 2 ELSE 1
      o2 == IF hdrspace # 0 THEN o1 + 1 ELSE o1
      fail == [used |-> 0, state |-> result]
  IN  IF nbits % 8 # 0 THEN fail
      ELSE IF remaining < min_remaining THEN fail
      ELSE IF hdrmark # 0 /\ ~matchMark(data[1], hdrmark) THEN fail
      ELSE IF hdrspace # 0 /\ ~matchSpace(data[o1], hdrspace) THEN fail
      ELSE LET m == matchBytes(data, o2, result, 1, nbits \div 8, onemark,
                               onespace, zeromark, zerospace, MSBfirst)
           IN  IF m.used = 0 /\ nbits # 0 THEN m
               ELSE [used |-> matchFooter(data, o2 + nbits * 2, remaining,
                                          footermark, footerspace, atleast),
                     state |-> m.state]

(* matchGeneric with no header and no data bits (the result is unused) *)
matchGenericBits(data, remaining, footermark, footerspace, atleast) ==
  IF remaining < (IF footermark # 0 THEN 1 ELSE 0) THEN 0
  ELSE matchFooter(data, 1, remaining, footermark, footerspace, atleast)

decodeSoleusMatch_noExtraFooter(res, buf, offset, nbits, strict) ==
  LET rawlen == Len(buf)
      m == matchGeneric(SubSeq(buf, offset + 1, rawlen), res.state,
                        rawlen - offset, nbits, kSoleusHdrMark,
                        kSoleusHdrSpace, kSoleusBitMark, kSoleusOneSpace,
                        kSoleusBitMark, kSoleusZeroSpace, kSoleusBitMark,
                        kSoleusHdrSpace, FALSE, FALSE)
      r1 == [res EXCEPT !.state = m.state]
  IN  IF m.used = 0 THEN [ret |-> FALSE, results |-> r1]
      ELSE IF strict /\ ~validChecksum(r1.state, nbits \div 8)
        THEN [ret |-> FALSE, results |-> r1]
      ELSE [ret |-> TRUE,
            results |-> [r1 EXCEPT !.decode_type = "SOLEUS",
                                   !.bits = nbits]]

(* IRrecv::decodeSoleus after its first compliance check: the value       *)
(* returned and the results record                                         *)
decodeSoleusMatch(res, buf, offset, nbits, strict) ==
  LET rawlen == Len(buf)
      m == matchGeneric(SubSeq(buf, offset + 1, rawlen), res.state,
                        rawlen - offset, nbits, kSoleusHdrMark,
                        kSoleusHdrSpace, kSoleusBitMark, kSoleusOneSpace,
                        kSoleusBitMark, kSoleusZeroSpace, kSoleusBitMark,
                        kSoleusHdrSpace, FALSE, FALSE)
      r1 == [res EXCEPT !.state = m.state]
      offset2 == offset + m.used
  IN  IF m.used = 0 THEN [ret |-> FALSE, results |-> r1]
      ELSE IF matchGenericBits(SubSeq(buf, offset2 + 1, rawlen),
                               rawlen - offset2, kSoleusBitMark,
                               kSoleusHdrSpace, TRUE) = 0
        THEN [ret |-> FALSE, results |-> r1]
      ELSE IF strict /\ ~validChecksum(r1.state, nbits \div 8)
        THEN [ret |-> FALSE, results |-> r1]
      ELSE [ret |-> TRUE,
            results |-> [r1 EXCEPT !.decode_type = "SOLEUS",
                                   !.bits = nbits]]

decodeSoleus_bitsTooMany(res, buf, offset, nbits, strict) ==
  IF strict /\ nbits > kSoleusBits THEN [ret |-> FALSE, results |-> res]
  ELSE decodeSoleusMatch(res, buf, offset, nbits, strict)

(* IRrecv::decodeSoleus *)
decodeSoleus(res, buf, offset, nbits, strict) ==
  IF strict /\ nbits # kSoleusBits THEN [ret |-> FALSE, results |-> res]
  ELSE decodeSoleusMatch(res, buf, offset, nbits, strict)

----------------------------------------------------------------------------
(* Arguments the callers pass *)
AllBytes(b) == [k \in 1..kSoleusStateLength |-> b]

Ramp(a, d) == [k \in 1..kSoleusStateLength |-> (a + d * k) % 256]

RawCodes ==
  {AllBytes(0), AllBytes(255), AllBytes(74), AllBytes(93), AllBytes(95),
   AllBytes(125), AllBytes(16), Ramp(11, 37), Ramp(234, 112)}

RawLens == {0, 1, 6, 10, 11, 12}

TempArgs == {0, 5} \cup (14..34) \cup {40, 47, 48, 255}

ModeArgs == (0..8) \cup {10, 12, 255}

FanArgs == (0..5) \cup {7, 255}

ButtonArgs == Buttons \cup {6, 12, 31, 32, 36, 255}

B2N(on) == IF on THEN 1 ELSE 0

----------------------------------------------------------------------------
(* Calls on an IRSoleusAc object *)
Call(op, arg, rs, clean) ==
  /\ nops < MaxOps
  /\ remote_state' = rs
  /\ fromReset' = clean
  /\ pre_state' = remote_state
  /\ lastOp' = op
  /\ lastArg' = arg
  /\ nops' = nops + 1
  /\ UNCHANGED <<retval, irvars>>

StateReset == Call("stateReset", 0, stateReset(remote_state), TRUE)

GetRaw == Call("getRaw", 0, getRaw(remote_state), fromReset)

SetRaw ==
  \E new_code \in RawCodes, length \in RawLens :
    Call("setRaw", <<new_code, length>>,
         setRaw(remote_state, new_code, length), FALSE)

SetButton ==
  \E button \in ButtonArgs :
    Call("setButton", button, setButton(remote_state, button), fromReset)

SetPower ==
  \E on \in BOOLEAN :
    Call("setPower", B2N(on), setPower(remote_state, on), fromReset)

SetMode ==
  \E mode \in ModeArgs :
    Call("setMode", mode, setMode(remote_state, mode), fromReset)

SetTemp ==
  \E temp \in TempArgs :
    Call("setTemp", temp, setTemp(remote_state, temp), fromReset)

SetFan ==
  \E speed \in FanArgs :
    Call("setFan", speed, setFan(remote_state, speed), fromReset)

SetSleep ==
  \E on \in BOOLEAN :
    Call("setSleep", B2N(on), setSleep(remote_state, on), fromReset)

SetSwingV ==
  \E on \in BOOLEAN :
    Call("setSwingV", B2N(on), setSwingV(remote_state, on), fromReset)

SetSwingH ==
  \E on \in BOOLEAN :
    Call("setSwingH", B2N(on), setSwingH(remote_state, on), fromReset)

SetTurbo ==
  \E on \in BOOLEAN :
    Call("setTurbo", B2N(on), setTurbo(remote_state, on), fromReset)

SetFresh ==
  \E on \in BOOLEAN :
    Call("setFresh", B2N(on), setFresh(remote_state, on), fromReset)

SetHold ==
  \E on \in BOOLEAN :
    Call("setHold", B2N(on), setHold(remote_state, on), fromReset)

SetIon ==
  \E on \in BOOLEAN :
    Call("setIon", B2N(on), setIon(remote_state, on), fromReset)

SetLight ==
  \E on \in BOOLEAN :
    Call("setLight", B2N(on), setLight(remote_state, on), fromReset)

Set8CHeat ==
  \E on \in BOOLEAN :
    Call("set8CHeat", B2N(on), set8CHeat(remote_state, on), fromReset)

SetEye ==
  \E on \in BOOLEAN :
    Call("setEye", B2N(on), setEye(remote_state, on), fromReset)

----------------------------------------------------------------------------
(* The state after IRSoleusAc::IRSoleusAc: the constructor calls stateReset *)
(* on the uninitialised buffer.                                            *)
NoResults ==
  [state |-> AllBytes(0), decode_type |-> "UNKNOWN", bits |-> 0]

InitIr ==
  /\ pc = "idle"
  /\ txdata = <<>>
  /\ txnbytes = 0
  /\ txrepeat = 0
  /\ txi = 0
  /\ irout = <<>>
  /\ nsent = 0
  /\ rawbuf = <<>>
  /\ results = NoResults
  /\ decodeArgs = <<0, FALSE>>
  /\ ret = FALSE

Init ==
  /\ \E uninit \in RawCodes : remote_state = stateReset(uninit)
  /\ fromReset = TRUE
  /\ pre_state = remote_state
  /\ lastOp = "IRSoleusAc"
  /\ lastArg = 0
  /\ nops = 0
  /\ retval = 0
  /\ InitIr

Next ==
  \/ StateReset
  \/ GetRaw
  \/ SetRaw
  \/ SetButton
  \/ SetPower
  \/ SetMode
  \/ SetTemp
  \/ SetFan
  \/ SetSleep
  \/ SetSwingV
  \/ SetSwingH
  \/ SetTurbo
  \/ SetFresh
  \/ SetHold
  \/ SetIon
  \/ SetLight
  \/ Set8CHeat
  \/ SetEye

Spec == Init /\ [][Next]_vars

----------------------------------------------------------------------------
(* The static checksum functions, called on the object's buffer or on a    *)
(* caller's array, with a length within the array                         *)
ChecksumArrays == {<<7>>, <<200, 100, 44>>, <<255, 255, 254>>, <<0, 0>>}

StaticCall(op, state, length, value) ==
  /\ nops < MaxOps
  /\ lastOp' = op
  /\ lastArg' = <<state, length>>
  /\ retval' = value
  /\ nops' = nops + 1
  /\ UNCHANGED <<remote_state, fromReset, pre_state, irvars>>

CalcChecksum ==
  \E state \in ChecksumArrays \cup {remote_state} :
    \E length \in 0..Len(state) :
      StaticCall("calcChecksum", state, length, calcChecksum(state, length))

ValidChecksum ==
  \E state \in ChecksumArrays \cup {remote_state} :
    \E length \in 0..Len(state) :
      StaticCall("validChecksum", state, length, validChecksum(state, length))

NextChecksum ==
  \/ SetRaw
  \/ GetRaw
  \/ SetTemp
  \/ CalcChecksum
  \/ ValidChecksum

SpecChecksum == Init /\ [][NextChecksum]_vars

----------------------------------------------------------------------------
(* Sending, capturing and decoding *)
Scenario ==
  setFan(setTemp(setMode(setPower(kReset, TRUE), kSoleusCool), 24),
         kSoleusFanHigh)

TxCodes ==
  RawCodes \cup
  {kReset, Scenario, setMode(kReset, kSoleusDry), setTemp(Scenario, 40),
   setFresh(setEye(kReset, TRUE), TRUE), [AllBytes(0) EXCEPT ![11] = 1],
   [AllBytes(255) EXCEPT ![1] = 254]}

TxData == TxCodes \cup {getRaw(c) : c \in TxCodes}

NbytesArgs == {kSoleusStateLength - 1, kSoleusStateLength}

NbitsArgs == {kSoleusBits - 8, kSoleusBits - 4, kSoleusBits}

StartSend(data, nbytes, repeat) ==
  /\ pc = "idle"
  /\ pc' = "sending"
  /\ txdata' = data
  /\ txnbytes' = nbytes
  /\ txrepeat' = repeat
  /\ txi' = 0
  /\ irout' = <<>>
  /\ nsent' = 0
  /\ UNCHANGED <<rawbuf, results, decodeArgs, ret>>

(* IRSoleusAc::send *)
Send ==
  \E repeat \in 0..MaxRepeat :
    /\ StartSend(getRaw(remote_state), kSoleusStateLength, repeat)
    /\ remote_state' = getRaw(remote_state)
    /\ pre_state' = remote_state
    /\ lastOp' = "send"
    /\ lastArg' = repeat
    /\ UNCHANGED <<fromReset, nops, retval>>

(* IRsend::sendSoleus called on a caller's array *)
SendSoleus ==
  \E data \in TxData, nbytes \in NbytesArgs, repeat \in 0..MaxRepeat :
    /\ StartSend(data, nbytes, repeat)
    /\ UNCHANGED acvars

(* for (uint16_t i = 0; i <= repeat; i++): one iteration *)
SendSoleusLoop ==
  /\ pc = "sending"
  /\ txi <= txrepeat
  /\ nsent < MaxCount
  /\ irout' = IF nsent < MaxLogged
                THEN irout \o sendSoleusMessage(txdata, txnbytes)
                ELSE irout
  /\ nsent' = nsent + 1
  /\ txi' = (txi + 1) % 65536
  /\ UNCHANGED <<pc, txdata, txnbytes, txrepeat, rawbuf, results, decodeArgs,
                 ret>>
  /\ UNCHANGED acvars

SendSoleusExit ==
  /\ pc = "sending"
  /\ ~(txi <= txrepeat)
  /\ pc' = "sent"
  /\ UNCHANGED <<txdata, txnbytes, txrepeat, txi, irout, nsent, rawbuf, results,
                 decodeArgs, ret>>
  /\ UNCHANGED acvars

(* The receiver's capture: entry 0 is the gap before the message, then the *)
(* durations seen.  The capture holds the whole transmission, or the first *)
(* message up to its trailing gap (the gap ends the capture), or is cut    *)
(* short right after the footer or in the footer.                          *)
Durations(pulses) == [k \in 1..Len(pulses) |-> pulses[k][2]]

MessageLen(nbytes) == 2 + 16 * nbytes + 2 + 2

CaptureLens(nbytes, total) ==
  {total, MessageLen(nbytes) - 1, MessageLen(nbytes) - 2,
   MessageLen(nbytes) - 3}

(* A duration that is within tolerance of none of the protocol's timings   *)
kNoMatch == 3000

(* The places where a whole capture may hold a duration that matches       *)
(* nothing: header mark, header space, a data bit's mark or space, footer  *)
(* mark, footer space, the extra bit mark, the gap after it.  0 is none.   *)
DistortAt(nbytes) ==
  {0, 1, 2, 3, 4, 2 + 16 * nbytes - 1, 2 + 16 * nbytes,
   MessageLen(nbytes) - 3, MessageLen(nbytes) - 2, MessageLen(nbytes) - 1,
   MessageLen(nbytes)}

Distort(durations, d) ==
  IF d \in 1..Len(durations) THEN [durations EXCEPT ![d] = kNoMatch]
  ELSE durations

Capture ==
  /\ pc = "sent"
  /\ \/ \E n \in CaptureLens(txnbytes, Len(irout)) :
          rawbuf' = <<kDefaultMessageGap>> \o SubSeq(Durations(irout), 1, n)
     \/ \E d \in DistortAt(txnbytes) :
          rawbuf' = <<kDefaultMessageGap>> \o Distort(Durations(irout), d)
  /\ pc' = "captured"
  /\ UNCHANGED <<txdata, txnbytes, txrepeat, txi, irout, nsent, results, decodeArgs,
                 ret>>
  /\ UNCHANGED acvars

DecodeSoleus ==
  /\ pc = "captured"
  /\ \E nbits \in NbitsArgs, strict \in BOOLEAN :
       LET d == decodeSoleus(results, rawbuf, 1, nbits, strict)
       IN  /\ ret' = d.ret
           /\ results' = d.results
           /\ decodeArgs' = <<nbits, strict>>
  /\ pc' = "decoded"
  /\ UNCHANGED <<txdata, txnbytes, txrepeat, txi, irout, nsent, rawbuf>>
  /\ UNCHANGED acvars

(* IRsend::sendSoleus with repeat counts up to the largest uint16_t *)
RepeatArgs == {0, 1, 2, 65534, 65535}

SendSoleusRepeat ==
  \E repeat \in RepeatArgs :
    /\ StartSend(<<>>, 0, repeat)
    /\ UNCHANGED acvars

NextRepeat ==
  \/ SendSoleusRepeat
  \/ SendSoleusLoop
  \/ SendSoleusExit

SpecRepeat == Init /\ [][NextRepeat]_vars

NextCodec ==
  \/ Send
  \/ SendSoleus
  \/ SendSoleusLoop
  \/ SendSoleusExit
  \/ Capture
  \/ DecodeSoleus

SpecCodec == Init /\ [][NextCodec]_vars

----------------------------------------------------------------------------
(* Properties *)
ByteSum10(rs) ==
  (rs[1] + rs[2] + rs[3] + rs[4] + rs[5] + rs[6] + rs[7] + rs[8] + rs[9]
   + rs[10]) % 256

Clamp(t) ==
  IF t < kSoleusMinTemp THEN kSoleusMinTemp
  ELSE IF t > kSoleusMaxTemp THEN kSoleusMaxTemp
  ELSE t

(* The capture holds at least the first message up to its extra footer mark *)
CapturedMessage(nbytes) ==
  /\ Len(rawbuf) >= MessageLen(nbytes)
  /\ rawbuf = <<kDefaultMessageGap>>
                \o SubSeq(Durations(irout), 1, Len(rawbuf) - 1)

(* C1: the buffer getRaw() returns passes validChecksum(buffer, 11),       *)
(* whatever calls came before.                                             *)
C1_FinalizedChecksum ==
  lastOp = "getRaw" => validChecksum(remote_state, kSoleusStateLength)

C1_Witness ==
  /\ lastOp = "getRaw"
  /\ ~fromReset
  /\ pre_state[11] # ByteSum10(pre_state)
  /\ remote_state[11] = ByteSum10(remote_state)

(* C2 as stated: in every reachable state, with no getRaw call needed,     *)
(* byte 10 equals the 8-bit sum of bytes 0..9.                             *)
C2_ChecksumAlways == remote_state[11] = ByteSum10(remote_state)

(* C2 as amended: right after a getRaw call byte 10 equals the 8-bit sum   *)
(* of bytes 0..9 and bytes 0..9 are as the previous calls left them; after *)
(* construction, stateReset, setRaw or a setter byte 10 may be stale.      *)
C2_ChecksumAfterGetRaw ==
  lastOp = "getRaw" =>
    /\ remote_state[11] = ByteSum10(remote_state)
    /\ \A k \in 1..10 : remote_state[k] = pre_state[k]

C2_Witness ==
  /\ lastOp = "getRaw"
  /\ fromReset
  /\ pre_state # kReset
  /\ pre_state[11] = kReset[11]
  /\ remote_state[11] = ByteSum10(pre_state)
  /\ remote_state[11] # pre_state[11]

(* C3: a message sent by sendSoleus(B, 11, 0) decodes with nbits = 88 to   *)
(* exactly the bytes B: with strict = true when byte 10 of B is a valid    *)
(* checksum, with strict = false for every B.                              *)
C3_RoundTrip ==
  (/\ pc = "decoded"
   /\ txnbytes = kSoleusStateLength
   /\ txrepeat = 0
   /\ CapturedMessage(kSoleusStateLength)
   /\ decodeArgs[1] = kSoleusBits
   /\ (decodeArgs[2] => txdata[11] = ByteSum10(txdata)))
  => /\ ret = TRUE
     /\ results.state = txdata
     /\ results.decode_type = "SOLEUS"
     /\ results.bits = kSoleusBits

C3_Witness ==
  /\ pc = "decoded"
  /\ txdata = getRaw(Scenario)
  /\ txnbytes = kSoleusStateLength
  /\ txrepeat = 0
  /\ decodeArgs = <<kSoleusBits, TRUE>>
  /\ ret = TRUE
  /\ results.state = getRaw(Scenario)
  /\ getButton(results.state) = kSoleusButtonFanSpeed

(* C4: a well-formed 88-bit message whose byte 10 is not the sum of its    *)
(* bytes 0..9 is refused with strict = true and decoded, bytes and all,    *)
(* with strict = false.                                                    *)
C4_StrictChecksum ==
  (/\ pc = "decoded"
   /\ txnbytes = kSoleusStateLength
   /\ CapturedMessage(kSoleusStateLength)
   /\ decodeArgs[1] = kSoleusBits
   /\ txdata[11] # ByteSum10(txdata))
  => /\ ret = ~decodeArgs[2]
     /\ (~decodeArgs[2] => results.state = txdata)

C4_Witness ==
  /\ pc = "decoded"
  /\ txnbytes = kSoleusStateLength
  /\ CapturedMessage(kSoleusStateLength)
  /\ decodeArgs = <<kSoleusBits, TRUE>>
  /\ txdata[11] # ByteSum10(txdata)
  /\ ret = FALSE

(* C5: with strict = true every call with nbits other than 88 returns      *)
(* false; with strict = false an 80-bit message decodes with nbits = 80.   *)
C5_StrictBitCount ==
  pc = "decoded" =>
    /\ (decodeArgs[2] /\ decodeArgs[1] # kSoleusBits => ret = FALSE)
    /\ (/\ ~decodeArgs[2]
        /\ decodeArgs[1] = kSoleusBits - 8
        /\ txnbytes = kSoleusStateLength - 1
        /\ CapturedMessage(kSoleusStateLength - 1)
        => ret = TRUE /\ results.bits = kSoleusBits - 8)

C5_Witness ==
  /\ pc = "decoded"
  /\ decodeArgs = <<kSoleusBits - 8, TRUE>>
  /\ txnbytes = kSoleusStateLength - 1
  /\ CapturedMessage(kSoleusStateLength - 1)
  /\ ret = FALSE
  /\ results = NoResults

FieldSetters ==
  {"setPower", "setMode", "setTemp", "setFan", "setSleep", "setSwingV",
   "setSwingH", "setTurbo", "setFresh", "setHold", "setIon", "setLight",
   "set8CHeat", "setEye"}

DryFanLow(rs) == getMode(rs) = kSoleusDry => getFan(rs) = kSoleusFanLow

(* C6: after the reset state and any field setters (no setRaw), DRY mode   *)
(* implies fan LOW; every field setter keeps it so from any state where    *)
(* it holds, setMode(DRY) makes the fan LOW whatever it was, and setFan    *)
(* in DRY mode leaves it LOW.                                              *)
C6_DryFanLow ==
  /\ fromReset => DryFanLow(remote_state)
  /\ lastOp \in FieldSetters /\ DryFanLow(pre_state)
       => DryFanLow(remote_state)
  /\ lastOp = "setMode" /\ lastArg = kSoleusDry
       => getMode(remote_state) = kSoleusDry
          /\ getFan(remote_state) = kSoleusFanLow

C6_Witness ==
  /\ fromReset
  /\ lastOp = "setFan"
  /\ lastArg \in {kSoleusFanAuto, kSoleusFanHigh, kSoleusFanMed}
  /\ getMode(pre_state) = kSoleusDry
  /\ getMode(remote_state) = kSoleusDry
  /\ getFan(remote_state) = kSoleusFanLow

(* C7: after setTemp(t), getTemp() is t clamped to [16, 32] and the stored *)
(* 5-bit offset is at most 16.                                             *)
C7_TempClamped ==
  lastOp = "setTemp" =>
    /\ getTemp(remote_state) = Clamp(lastArg)
    /\ GETBITS8(remote_state[10], kSoleusTempOffset, kSoleusTempSize)
         <= kSoleusMaxTemp - kSoleusMinTemp

C7_Witness ==
  /\ lastOp = "setTemp"
  /\ lastArg = 40
  /\ getTemp(pre_state) > kSoleusMaxTemp
  /\ getTemp(remote_state) = kSoleusMaxTemp

(* C8: setTemp records TEMP_UP when the clamped temperature is above the   *)
(* previous getTemp(), TEMP_DOWN when below, and leaves the button code    *)
(* as it was when they are equal.                                          *)
C8_TempButton ==
  lastOp = "setTemp" =>
    LET old == getTemp(pre_state)
        new == Clamp(lastArg)
    IN  /\ new > old => getButton(remote_state) = kSoleusButtonTempUp
        /\ new < old => getButton(remote_state) = kSoleusButtonTempDown
        /\ new = old => getButton(remote_state) = getButton(pre_state)

C8_Witness ==
  /\ lastOp = "setTemp"
  /\ lastArg > kSoleusMaxTemp
  /\ getTemp(pre_state) = kSoleusMaxTemp
  /\ getButton(pre_state) \notin {kSoleusButtonTempUp, kSoleusButtonTempDown}
  /\ getButton(remote_state) = getButton(pre_state)

(* C9: after setMode(v) with v outside {0..4}, getMode() is AUTO           *)
(* (v is not stored cut to 3 bits).                                        *)
C9_UnknownModeAuto ==
  lastOp = "setMode" /\ lastArg \notin
      {kSoleusAuto, kSoleusCool, kSoleusDry, kSoleusFan, kSoleusHeat}
    => getMode(remote_state) = kSoleusAuto

C9_Witness ==
  /\ lastOp = "setMode"
  /\ lastArg = 10
  /\ getMode(pre_state) = kSoleusHeat
  /\ getMode(remote_state) = kSoleusAuto

(* C10 as stated: after setFan(v) with v outside {0..3}, from any state,   *)
(* getFan() is AUTO.                                                       *)
C10_UnknownFanAuto ==
  lastOp = "setFan" /\ lastArg \notin
      {kSoleusFanAuto, kSoleusFanHigh, kSoleusFanMed, kSoleusFanLow}
    => getFan(remote_state) = kSoleusFanAuto

(* C10 as amended: after setFan(v) with v outside {0..3}, getFan() is AUTO *)
(* when the mode is not DRY and LOW when the mode is DRY.                  *)
C10_UnknownFanAutoUnlessDry ==
  lastOp = "setFan" /\ lastArg \notin
      {kSoleusFanAuto, kSoleusFanHigh, kSoleusFanMed, kSoleusFanLow}
    => /\ getMode(remote_state) = getMode(pre_state)
       /\ getFan(remote_state) =
            IF getMode(pre_state) = kSoleusDry THEN kSoleusFanLow
            ELSE kSoleusFanAuto

C10_Witness ==
  /\ lastOp = "setFan"
  /\ lastArg = 255
  /\ getMode(pre_state) # kSoleusDry
  /\ getFan(pre_state) = kSoleusFanLow
  /\ getFan(remote_state) = kSoleusFanAuto

(* C11: after setButton(code), getButton() is code when code is one of the *)
(* 16 button codes and POWER otherwise, also for codes of 0x20 and above   *)
(* whose low 5 bits are a button code.                                     *)
C11_SetButtonValidated ==
  lastOp = "setButton" =>
    getButton(remote_state) =
      IF lastArg \in {0, 1, 2, 3, 4, 5, 7, 8, 9, 10, 11, 14, 19, 20, 21, 29}
        THEN lastArg
        ELSE kSoleusButtonPower

C11_Witness ==
  /\ lastOp = "setButton"
  /\ lastArg = 36
  /\ getButton(pre_state) = kSoleusButtonFresh
  /\ getButton(remote_state) = kSoleusButtonPower

ButtonOf(op) ==
  CASE op = "setPower" -> kSoleusButtonPower
    [] op = "setMode" -> kSoleusButtonMode
    [] op = "setFan" -> kSoleusButtonFanSpeed
    [] op = "setSwingV" -> kSoleusButtonSwing
    [] op = "setSwingH" -> kSoleusButtonAirFlow
    [] op = "setSleep" -> kSoleusButtonSleep
    [] op = "setTurbo" -> kSoleusButtonTurbo
    [] op = "setFresh" -> kSoleusButtonFresh
    [] op = "setHold" -> kSoleusButtonHold
    [] op = "setIon" -> kSoleusButtonIon
    [] op = "setLight" -> kSoleusButtonLight
    [] op = "set8CHeat" -> kSoleusButton8CHeat
    [] op = "setEye" -> kSoleusButtonEye

(* C12: right after a field setter other than setTemp, getButton() is that *)
(* setter's own button code, whatever the argument and the state before.   *)
C12_LastButton ==
  lastOp \in FieldSetters \ {"setTemp"} =>
    getButton(remote_state) = ButtonOf(lastOp)

C12_Witness ==
  /\ lastOp = "setMode"
  /\ lastArg = kSoleusDry
  /\ getFan(pre_state) # kSoleusFanLow
  /\ getFan(remote_state) = kSoleusFanLow
  /\ getButton(remote_state) = kSoleusButtonMode

(* C18: setRaw(bytes, length) copies the first min(length, 11) bytes into  *)
(* positions 0..min(length, 11)-1, leaves the other positions as they      *)
(* were, and the buffer stays 11 bytes long.                               *)
C18_SetRawPartialCopy ==
  lastOp = "setRaw" =>
    LET new_code == lastArg[1]
        n == IF lastArg[2] < 11 THEN lastArg[2] ELSE 11
    IN  /\ DOMAIN remote_state = 1..11
        /\ \A k \in 1..11 :
             remote_state[k] = IF k <= n THEN new_code[k] ELSE pre_state[k]

C18_Witness ==
  /\ lastOp = "setRaw"
  /\ lastArg[2] = 6
  /\ lastArg[1] = AllBytes(255)
  /\ pre_state # kReset
  /\ pre_state[7] # 255
  /\ remote_state[6] = 255
  /\ remote_state[7] = pre_state[7]

(* C19: right after construction and right after stateReset(), from any    *)
(* state, the buffer is {0,0,0,0,0,0,0,0x6A,0,0x2A,0xA5}.                  *)
C19_ResetPattern ==
  lastOp \in {"IRSoleusAc", "stateReset"} =>
    remote_state = <<0, 0, 0, 0, 0, 0, 0, 106, 0, 42, 165>>

C19_Witness ==
  /\ lastOp = "stateReset"
  /\ \A k \in 1..11 : pre_state[k] = 255
  /\ remote_state[8] = 106
  /\ remote_state[11] = 165

(* C20: a getRaw() call that directly follows a getRaw() call returns the  *)
(* same 11 bytes and changes no byte of the buffer; the buffer any         *)
(* getRaw() call returns is one a further getRaw() call leaves as it is.   *)
C20_GetRawIdempotent ==
  [][/\ lastOp = "getRaw" /\ lastOp' = "getRaw" /\ nops' = nops + 1
          => remote_state' = remote_state
     /\ lastOp' = "getRaw" => getRaw(remote_state') = remote_state']_vars

C20_Witness ==
  /\ lastOp = "getRaw"
  /\ nops = 2
  /\ pre_state = [kReset EXCEPT ![11] = 148]
  /\ remote_state = pre_state

RECURSIVE SumFrom(_, _, _)
SumFrom(bytes, k, n) ==
  IF k > n THEN 0 ELSE bytes[k] + SumFrom(bytes, k + 1, n)

(* C17: calcChecksum(bytes, n) is the sum of bytes[0..n-2] modulo 256 for  *)
(* n >= 1 (0 for n = 1) and bytes[0] for n = 0; validChecksum(bytes, n) is *)
(* true exactly when n < 2 or bytes[n-1] is that sum.                      *)
C17_ChecksumFunctions ==
  LET bytes == lastArg[1]
      n == lastArg[2]
      sum == SumFrom(bytes, 1, n - 1) % 256
  IN  /\ lastOp = "calcChecksum" =>
           retval = IF n = 0 THEN bytes[1] ELSE sum
      /\ lastOp = "validChecksum" =>
           retval = (n < 2 \/ bytes[n] = sum)

C17_Witness ==
  /\ lastOp = "calcChecksum"
  /\ lastArg = <<AllBytes(255), 11>>
  /\ retval = 246

(* C13: for every repeat in 0..65535 sendSoleus emits the message exactly  *)
(* repeat + 1 times and then returns: never more than repeat + 1 messages  *)
(* while it runs, exactly repeat + 1 when it has returned.                 *)
C13_RepeatCount ==
  /\ pc = "sending" => nsent <= txrepeat + 1
  /\ pc = "sent" => nsent = txrepeat + 1

(* The pulse emitted for bit slot p (1..8, in the order sent) of byte k    *)
(* (1..nbytes) of message j (0, 1, ...) in irout                           *)
FrameLen == 6 + 16 * txnbytes

SlotSpace(j, k, p) == irout[j * FrameLen + 2 + 16 * (k - 1) + 2 * p]

SlotMark(j, k, p) == irout[j * FrameLen + 2 + 16 * (k - 1) + 2 * p - 1]

PopCount(byte) == Cardinality({b \in 0..7 : BitAt(byte, b) = 1})

Logged == IF nsent < MaxLogged THEN nsent ELSE MaxLogged

(* C14: every message sendSoleus emits is, in this order, mark 6112,       *)
(* space 7391, then per data bit mark 537 and space 1651 (a 1) or 571      *)
(* (a 0), then mark 537, space 7391, then mark 537, space 100000 (the      *)
(* minimum gap), and nothing else is emitted within or between messages.   *)
C14_FrameOrder ==
  pc # "idle" =>
    /\ Len(irout) = Logged * FrameLen
    /\ \A j \in 0..(Logged - 1) :
         /\ irout[j * FrameLen + 1] = <<"mark", 6112>>
         /\ irout[j * FrameLen + 2] = <<"space", 7391>>
         /\ \A k \in 1..txnbytes :
              /\ \A p \in 1..8 :
                   /\ SlotMark(j, k, p) = <<"mark", 537>>
                   /\ SlotSpace(j, k, p) \in
                        {<<"space", 1651>>, <<"space", 571>>}
              /\ Cardinality({p \in 1..8 :
                                SlotSpace(j, k, p) = <<"space", 1651>>})
                   = PopCount(txdata[k])
         /\ irout[(j + 1) * FrameLen - 3] = <<"mark", 537>>
         /\ irout[(j + 1) * FrameLen - 2] = <<"space", 7391>>
         /\ irout[(j + 1) * FrameLen - 1] = <<"mark", 537>>
         /\ irout[(j + 1) * FrameLen] = <<"space", 100000>>

C14_Witness ==
  /\ pc = "sent"
  /\ txdata = getRaw(Scenario)
  /\ txnbytes = 11
  /\ txrepeat = 1
  /\ nsent = 2
  /\ Len(irout) = 2 * 182
  /\ irout[182] = <<"space", 100000>>
  /\ irout[183] = <<"mark", 6112>>

InBand(measured, desired) ==
  /\ measured * 100 >= desired * 75
  /\ measured * 100 <= desired * 125

HeaderMatches ==
  /\ Len(rawbuf) >= 3
  /\ InBand(rawbuf[2], 6112)
  /\ InBand(rawbuf[3], 7391)

DataMatches(nbits) ==
  /\ Len(rawbuf) >= 3 + 2 * nbits
  /\ \A b \in 1..nbits :
       /\ InBand(rawbuf[2 * b + 2], 537)
       /\ InBand(rawbuf[2 * b + 3], 1651) \/ InBand(rawbuf[2 * b + 3], 571)

FooterMatches(nbits) ==
  /\ Len(rawbuf) >= 2 * nbits + 4
  /\ InBand(rawbuf[2 * nbits + 4], 537)
  /\ Len(rawbuf) >= 2 * nbits + 5 => InBand(rawbuf[2 * nbits + 5], 7391)

ExtraMarkMatches(nbits) ==
  /\ Len(rawbuf) >= 2 * nbits + 6
  /\ InBand(rawbuf[2 * nbits + 6], 537)
  /\ Len(rawbuf) >= 2 * nbits + 7 => rawbuf[2 * nbits + 7] * 100 >= 7391 * 75

EndsAfterFooter(nbits) == Len(rawbuf) = 2 * nbits + 5

(* C16: decodeSoleus returns true only if the header, every data bit, the  *)
(* footer and the extra trailing bit mark all matched within tolerance, in *)
(* that order; a mismatch in any of them, or a capture that ends right     *)
(* after the footer, makes it return false.  A non-strict decode of whole  *)
(* bytes whose four stages match returns true.                             *)
C16_StageFailures ==
  pc = "decoded" =>
    LET nbits == decodeArgs[1]
        strict == decodeArgs[2]
        stages == /\ HeaderMatches
                  /\ DataMatches(nbits)
                  /\ FooterMatches(nbits)
                  /\ ExtraMarkMatches(nbits)
    IN  /\ ret = TRUE => stages
        /\ EndsAfterFooter(nbits) => ret = FALSE
        /\ stages /\ ~strict /\ nbits % 8 = 0 => ret = TRUE

C16_Witness ==
  /\ pc = "decoded"
  /\ decodeArgs = <<kSoleusBits, FALSE>>
  /\ txnbytes = kSoleusStateLength
  /\ HeaderMatches
  /\ DataMatches(kSoleusBits)
  /\ FooterMatches(kSoleusBits)
  /\ EndsAfterFooter(kSoleusBits)
  /\ results.state = txdata
  /\ ret = FALSE

(* C21: getFollow() is true exactly when byte 8 is one of the two sentinel *)
(* values 0x5D and 0x5F, in every state the buffer can be in.              *)
C21_FollowSentinel ==
  getFollow(remote_state) <=> remote_state[9] \in {93, 95}

(* C22: a decodeSoleus call that returns false leaves the results record   *)
(* as it was before the call: state bytes, decode_type and bits.           *)
C22_FailedDecodeKeepsResults ==
  [][pc = "captured" /\ pc' = "decoded" /\ ret' = FALSE
       => results' = results]_vars

(* The bits of a field: pairs <<byte, bit>>, bytes counted from 0 *)
BitsOf(byte, lo, size) == {<<byte, k>> : k \in lo..(lo + size - 1)}

ButtonBits == BitsOf(5, 0, 5)

OwnBits(op, arg) ==
  CASE op = "setPower" -> BitsOf(7, 1, 1)
    [] op = "setSleep" -> BitsOf(7, 0, 1)
    [] op = "setSwingV" -> BitsOf(7, 2, 2)
    [] op = "setSwingH" -> BitsOf(7, 4, 1)
    [] op = "setFan" -> BitsOf(7, 5, 2)
    [] op = "setTurbo" -> BitsOf(3, 3, 1)
    [] op = "setHold" -> BitsOf(3, 2, 1)
    [] op = "setLight" -> BitsOf(3, 0, 1)
    [] op = "setEye" -> BitsOf(3, 6, 1)
    [] op = "setIon" -> BitsOf(1, 2, 1)
    [] op = "set8CHeat" -> BitsOf(1, 1, 1)
    [] op = "setFresh" -> BitsOf(5, 7, 1)
    [] op = "setTemp" -> BitsOf(9, 0, 5)
    [] op = "setMode" -> BitsOf(9, 5, 3) \cup
                         (IF arg = 2 THEN BitsOf(7, 5, 2) ELSE {})
    [] OTHER -> {}

SameBit(i, k) ==
  GETBIT8(remote_state[i + 1], k) = GETBIT8(pre_state[i + 1], k)

(* C23: from any state, a field setter changes no bit outside its own      *)
(* field and the button field (byte 5 bits 0-4); setMode(DRY) may also     *)
(* change the fan field.  Bytes 0, 2, 4, 6, 8 and 10 are never changed.    *)
C23_SetterFrame ==
  lastOp \in FieldSetters =>
    /\ Len(remote_state) = 11
    /\ \A i \in 0..10, k \in 0..7 :
         <<i, k>> \notin OwnBits(lastOp, lastArg) \cup ButtonBits
           => SameBit(i, k)
    /\ \A i \in {0, 2, 4, 6, 8, 10} : remote_state[i + 1] = pre_state[i + 1]

C23_Witness ==
  /\ lastOp = "setSwingV"
  /\ lastArg = 1
  /\ pre_state = AllBytes(255)
  /\ remote_state[8] = 247
  /\ remote_state[6] = 228
  /\ \A i \in 0..10 : i \notin {5, 7} => remote_state[i + 1] = 255

Getter(op, rs) ==
  CASE op = "setPower" -> getPower(rs)
    [] op = "setSleep" -> getSleep(rs)
    [] op = "setSwingV" -> getSwingV(rs)
    [] op = "setSwingH" -> getSwingH(rs)
    [] op = "setTurbo" -> getTurbo(rs)
    [] op = "setFresh" -> getFresh(rs)
    [] op = "setHold" -> getHold(rs)
    [] op = "setIon" -> getIon(rs)
    [] op = "setLight" -> getLight(rs)
    [] op = "set8CHeat" -> get8CHeat(rs)
    [] op = "setEye" -> getEye(rs)

BoolSetters ==
  {"setPower", "setSleep", "setSwingV", "setSwingH", "setTurbo", "setFresh",
   "setHold", "setIon", "setLight", "set8CHeat", "setEye"}

(* C24: from any state, after setX(b) of a boolean field getX() is b, with *)
(* SwingH stored inverted in byte 7 bit 4 and SwingV stored as 01 (on) or  *)
(* 10 (off) in byte 7 bits 2-3; after setMode(m) with m in 0..4 getMode()  *)
(* is m; after setFan(s) with s in 0..3 while the mode is not DRY getFan() *)
(* is s.                                                                   *)
C24_SetterGetter ==
  /\ lastOp \in BoolSetters =>
       (Getter(lastOp, remote_state) <=> lastArg = 1)
  /\ lastOp = "setSwingH" =>
       (GETBIT8(remote_state[8], 4) <=> lastArg = 0)
  /\ lastOp = "setSwingV" =>
       GETBITS8(remote_state[8], 2, 2) = (IF lastArg = 1 THEN 1 ELSE 2)
  /\ lastOp = "setMode" /\ lastArg \in 0..4 =>
       getMode(remote_state) = lastArg
  /\ lastOp = "setFan" /\ lastArg \in 0..3 /\ getMode(pre_state) # 2 =>
       getFan(remote_state) = lastArg

C24_Witness ==
  /\ lastOp = "setSwingH"
  /\ lastArg = 1
  /\ GETBIT8(pre_state[8], 4)
  /\ ~getSwingH(pre_state)
  /\ getSwingH(remote_state)
  /\ ~GETBIT8(remote_state[8], 4)

WellFormed(rs) ==
  /\ getButton(rs) \in
       {0, 1, 2, 3, 4, 5, 7, 8, 9, 10, 11, 14, 19, 20, 21, 29}
  /\ ~GETBIT8(rs[6], 5)
  /\ ~GETBIT8(rs[6], 6)
  /\ getTemp(rs) \in 16..32

(* C25: in every state reached from the reset state by field setters and   *)
(* setButton calls with any 8-bit arguments (no setRaw), getButton() is    *)
(* one of the 16 button codes, bits 5-6 of byte 5 are zero and getTemp()   *)
(* is in 16..32; each such call keeps this so from any state where it      *)
(* holds.                                                                  *)
C25_ButtonWellFormed ==
  /\ fromReset => WellFormed(remote_state)
  /\ lastOp \in FieldSetters \cup {"setButton"} /\ WellFormed(pre_state)
       => WellFormed(remote_state)

C25_Witness ==
  /\ fromReset
  /\ nops = 2
  /\ lastOp = "setButton"
  /\ lastArg = 255
  /\ getFresh(pre_state)
  /\ getButton(pre_state) = 21
  /\ remote_state[6] = 128

====
